---- MODULE Spec2Model ----
(***************************************************************************)
(* Model of the MRI analysis pipeline: the Flask endpoint /analyze         *)
(* (src/app.py) and the Streamlit UI (src/ollama_integration.py).  One     *)
(* behaviour is one request: decode the upload, encode one raster, stream  *)
(* the answer of the inference endpoint, persist / display the outcome.    *)
(***************************************************************************)
EXTENDS Integers, Sequences, FiniteSets, TLC

VARIABLES
    entry,          \* "flask" (app.py) or "ui" (ollama_integration.py)
    has_input,      \* the request carries file and analysis_type / a file is uploaded
    upload,         \* the uploaded file
    analysis_type,  \* the category selector of the request
    pressed,        \* ui: the "Analyze Image" button is pressed
    post_outcome,   \* endpoint: "ok", "refused" (no connection), "status" (non-2xx)
    body,           \* endpoint: the lines of the response body
    body_end,       \* endpoint: "eof" (clean close) or "abort" (connection breaks after the lines)
    prior,          \* rows of analysis_history when the request arrives
    pc,             \* position of the handler
    image_data,     \* result of decoding
    frame_idx,      \* ui: slider position
    current_frame,  \* raster handed to the encoder
    img_base64,     \* encoded payload
    sent,           \* HTTP requests issued to the inference endpoint
    nread,          \* number of body lines the client has pulled from the connection
    pos,            \* number of body lines the line loop has taken
    full_response,  \* the accumulator
    result,         \* flask: value returned by analyze_image_with_ollama
    fault,          \* exception raised inside analyze_image_with_ollama ("none" if none)
    shown,          \* ui: content of result_placeholder
    status,         \* ui: st.success banner
    history,        \* ui: the history table
    db,             \* table analysis_history
    tmp_files,      \* temporary files on disk
    http,           \* flask: the HTTP response
    exc             \* exception that escaped the handler ("none" if none)

vars == << entry, has_input, upload, analysis_type, pressed, post_outcome, body,
           body_end, pc, image_data, frame_idx, current_frame, img_base64, sent,
           nread, pos, full_response, result, fault, shown, status, history, db,
           http, exc, prior, tmp_files >>

inputs == << entry, has_input, upload, analysis_type, pressed, post_outcome, body,
             body_end, prior >>

(***************************************************************************)
(* Bounds of the model.                                                    *)
(***************************************************************************)
MaxSample == 2      \* raw samples range over 0..MaxSample
NPix      == 2      \* samples per frame
MaxFrames == 2      \* frames of a multi-frame source
MaxLines  == 3      \* lines of a response body
MaxRows   == 6      \* rows of analysis_history before the request
MaxTime   == 2      \* seconds of the clock behind CURRENT_TIMESTAMP

(***************************************************************************)
(* Program constants.                                                      *)
(***************************************************************************)
NormAlpha    == 0       \* cv2.normalize(..., 0, 255, cv2.NORM_MINMAX): lower bound
NormBeta     == 255     \* cv2.normalize(..., 0, 255, cv2.NORM_MINMAX): upper bound
Uint8Modulus == 256     \* .astype(np.uint8)
HistoryLimit == 5       \* ORDER BY timestamp DESC LIMIT 5

prompts ==
    [ General_Description      |-> "prompt_general_description",
      Anomaly_Detection        |-> "prompt_anomaly_detection",
      Segmentation             |-> "prompt_segmentation",
      Condition_Identification |-> "prompt_condition_identification" ]

Categories == DOMAIN prompts

api_url == "http://localhost:11434/api/generate"

(***************************************************************************)
(* Rasters.  A frame is the sequence of its samples.                       *)
(***************************************************************************)
Samples == 0..MaxSample
Frames  == [1..NPix -> Samples]
BinaryFrames == [1..NPix -> {0, MaxSample}]
FrameSeqs == UNION { [1..n -> BinaryFrames] : n \in 1..MaxFrames }

MinOf(f) == CHOOSE m \in {f[i] : i \in DOMAIN f} : \A i \in DOMAIN f : m <= f[i]
MaxOf(f) == CHOOSE m \in {f[i] : i \in DOMAIN f} : \A i \in DOMAIN f : m >= f[i]

\* cvRound: nearest integer, ties to even, of n / d (n >= 0, d > 0)
RoundHalfEven(n, d) ==
    LET q == n \div d
        r == n % d
    IN  IF 2 * r < d THEN q
        ELSE IF 2 * r > d THEN q + 1
        ELSE IF q % 2 = 0 THEN q ELSE q + 1

AsUint8(v) == v % Uint8Modulus

\* cv2.normalize(frame, None, 0, 255, cv2.NORM_MINMAX).astype(np.uint8)
Normalize(f) ==
    LET lo == MinOf(f)
        hi == MaxOf(f)
    IN  [i \in DOMAIN f |->
            AsUint8(IF hi = lo
                    THEN NormAlpha
                    ELSE NormAlpha
                         + RoundHalfEven((f[i] - lo) * (NormBeta - NormAlpha), hi - lo))]

\* values of image_data / current_frame
None        == [kind |-> "None",  px |-> << >>, frames |-> << >>]
Array(f)    == [kind |-> "array", px |-> f,     frames |-> << >>]
List(fs)    == [kind |-> "list",  px |-> << >>, frames |-> fs]
Unset       == [kind |-> "unset", px |-> << >>, frames |-> << >>]

Returned(v) == [exc |-> "none", val |-> v]
Raised(e)   == [exc |-> e,      val |-> Unset]

\* tmp_file.write(...) followed, inside the with block, by a read of
\* tmp_file.name: an upload shorter than the write buffer has not reached the
\* file yet, the reader finds an empty file
WriteTemp(u) == IF u.small THEN [u EXCEPT !.parse = "empty"] ELSE u

process_dicom(u) ==
    IF u.parse \in {"bad", "empty"} THEN Raised("InvalidDicomError")
    ELSE IF u.parse = "nopixel" THEN Returned(None)
    ELSE IF u.ndim = 2 THEN Returned(Array(Normalize(u.frames[1])))
    ELSE Returned(List([i \in DOMAIN u.frames |-> Normalize(u.frames[i])]))

\* np.array(Image.open(file)): the frame under the decoder's cursor, samples as stored
OpenFirstFrame(u) ==
    IF u.parse = "bad" THEN Raised("UnidentifiedImageError")
    ELSE Returned(Array(u.frames[1]))

\* the gif loop of the UI: one array per frame until seek raises EOFError
OpenAllFrames(u) ==
    IF u.parse = "bad" THEN Raised("UnidentifiedImageError")
    ELSE Returned(List(u.frames))

FlaskDecode(u) ==
    IF u.ext = "dcm" THEN process_dicom(WriteTemp(u)) ELSE OpenFirstFrame(u)

UiDecode(u) ==
    IF u.ext = "dcm" THEN process_dicom(WriteTemp(u))
    ELSE IF u.ext = "gif" THEN OpenAllFrames(u)
    ELSE OpenFirstFrame(u)

\* image_data[frame_idx] on a Python list (index from 0)
SelectFrame(d, idx) ==
    IF idx < Len(d.frames)
    THEN Returned(Array(d.frames[idx + 1]))
    ELSE Raised("IndexError")

\* Image.fromarray(x).save(img_bytes, format="PNG"); base64.b64encode(...)
NoPayload == [encoding |-> "none", format |-> "none", px |-> << >>]
PngBase64(f) == [encoding |-> "base64", format |-> "PNG", px |-> f]

Encode(x) ==
    IF x.kind = "array"
    THEN [exc |-> "none", val |-> PngBase64(x.px)]
    ELSE [exc |-> "AttributeError", val |-> NoPayload]

(***************************************************************************)
(* Response lines.                                                         *)
(***************************************************************************)
RespVals == { << >>, <<"A">>, <<"B">> }
DoneVals == { "absent", "false", "true" }

EmptyLine == [kind |-> "empty",    has_response |-> FALSE, response |-> << >>, done |-> "absent"]
NotJson   == [kind |-> "notjson",  has_response |-> FALSE, response |-> << >>, done |-> "absent"]
BadBytes  == [kind |-> "badbytes", has_response |-> FALSE, response |-> << >>, done |-> "absent"]
NonObject == [kind |-> "nonobj",   has_response |-> FALSE, response |-> << >>, done |-> "absent"]
Obj(r, d)  == [kind |-> "obj", has_response |-> TRUE,  response |-> r,     done |-> d]
ObjNoResp(d) == [kind |-> "obj", has_response |-> FALSE, response |-> << >>, done |-> d]

Lines ==
    { EmptyLine, NotJson, BadBytes, NonObject }
    \cup { Obj(r, d) : r \in RespVals, d \in DoneVals }
    \cup { ObjNoResp(d) : d \in DoneVals }

Bodies == UNION { [1..n -> Lines] : n \in 0..MaxLines }

RequestExceptions == { "ConnectionError", "HTTPError", "ChunkedEncodingError" }

\* the except clauses of analyze_image_with_ollama, in order
Handle(e) ==
    IF e \in RequestExceptions THEN "API Request Error"
    ELSE IF e = "JSONDecodeError" THEN "JSON Decode Error"
    ELSE "Unexpected Error"

Analysis(text) == [tag |-> "analysis", text |-> text]
Error(msg)     == [tag |-> "error",    text |-> <<msg>>]
NoResult       == [tag |-> "none",     text |-> << >>]

\* requests.post(...) followed by raise_for_status()
PostFault(outcome) ==
    IF outcome = "refused" THEN "ConnectionError"
    ELSE IF outcome = "status" THEN "HTTPError"
    ELSE "none"

\* json.loads(line) and the two tests on the parsed value
ParseLine(line) ==
    IF line.kind = "notjson" THEN "JSONDecodeError"
    ELSE IF line.kind = "badbytes" THEN "UnicodeDecodeError"
    ELSE IF line.kind = "nonobj" THEN "TypeError"
    ELSE "none"

\* AppendText with the delta put in front of the accumulator
PrependText(acc, r) == r \o acc

\* full_response += json_response["response"]
AppendText(acc, r) == acc \o r

\* json_response.get("done", False)
IsDone(line) == line.kind = "obj" /\ line.done = "true"

\* EndOfStream if a stream that ends without a done marker were an error
EndFailsWithoutDone(acc, end) ==
    [fault |-> "ChunkedEncodingError", result |-> Error("API Request Error")]

\* the for loop falls through: the iterator is exhausted or raises
EndOfStream(acc, end) ==
    IF end = "abort"
    THEN [fault |-> "ChunkedEncodingError", result |-> Error(Handle("ChunkedEncodingError"))]
    ELSE [fault |-> "none", result |-> Analysis(acc)]

\* ValidType if the selector were not checked
AlwaysValid(t) == TRUE

\* analysis_type not in prompts
ValidType(t) == t \in DOMAIN prompts

PromptFor(t) == IF t \in DOMAIN prompts THEN prompts[t] ELSE "KeyError"

Request(payload, t, streamed) ==
    [url |-> api_url, model |-> "llama3.2-vision", prompt |-> PromptFor(t),
     images |-> <<payload>>, stream |-> TRUE, streamed |-> streamed]

\* json.dumps(results)
JsonDumps(r) == [json |-> r]

\* a row of analysis_history: id AUTOINCREMENT, timestamp DEFAULT CURRENT_TIMESTAMP
Record(id, u, t, r, now) ==
    [id |-> id, filename |-> u.name, analysis_type |-> t, results |-> JsonDumps(r),
     timestamp |-> now]

\* CURRENT_TIMESTAMP counts whole seconds
Times == 1..MaxTime

\* the seconds the clock can show once the rows of a table are written
ClockAfter(rows) ==
    { t \in Times : \A i \in 1..Len(rows) : rows[i].timestamp <= t }

NoHttp == [status |-> 0, body |-> NoResult]

(***************************************************************************)
(* Uploads.                                                                *)
(***************************************************************************)
\* small: the file is shorter than the write buffer of a file object
Upload(ext, parse, ndim, fs, small) ==
    [name |-> ext, ext |-> ext, parse |-> parse, ndim |-> ndim, frames |-> fs,
     small |-> small]

DcmUploads ==
    { Upload("dcm", p, 0, << >>, b) : p \in {"bad", "nopixel"}, b \in BOOLEAN }
    \cup { Upload("dcm", "ok", 2, <<f>>, b) : f \in Frames, b \in BOOLEAN }
    \cup { Upload("dcm", "ok", 3, fs, b) : fs \in FrameSeqs, b \in BOOLEAN }

PngUploads ==
    { Upload("png", "bad", 0, << >>, b) : b \in BOOLEAN }
    \cup { Upload("png", "ok", 2, <<f>>, b) : f \in Frames, b \in BOOLEAN }

GifUploads ==
    { Upload("gif", "bad", 0, << >>, TRUE) }
    \cup { Upload("gif", "ok", 3, fs, TRUE) : fs \in FrameSeqs }

Uploads == DcmUploads \cup PngUploads \cup GifUploads

PlainUpload == Upload("png", "ok", 2, << [i \in 1..NPix |-> 0] >>, TRUE)

ShortBody == << Obj(<<"A">>, "true") >>

\* tables left by earlier requests: ids in insertion order, timestamps never
\* decreasing, several rows may share a second
PriorTables ==
    UNION { { [i \in 1..n |-> Record(i, PlainUpload, "General_Description",
                                      Analysis(<< >>), ts[i])] :
              ts \in { x \in [1..n -> Times] :
                         \A i \in 1..n : \A j \in i..n : x[i] <= x[j] } } :
            n \in 0..MaxRows }

(***************************************************************************)
(* Initial states: the request and the behaviour of the endpoint.          *)
(***************************************************************************)
Fresh ==
    /\ pc = "start"
    /\ image_data = Unset
    /\ frame_idx = 0
    /\ current_frame = Unset
    /\ img_base64 = NoPayload
    /\ sent = << >>
    /\ nread = 0
    /\ pos = 0
    /\ full_response = << >>
    /\ result = NoResult
    /\ fault = "none"
    /\ shown = << >>
    /\ status = "none"
    /\ history = << >>
    /\ db = prior
    /\ tmp_files = 0
    /\ http = NoHttp
    /\ exc = "none"

RequestShape ==
    /\ entry \in {"flask", "ui"}
    /\ analysis_type \in (IF entry = "flask" THEN Categories \cup {"Other"} ELSE Categories)
    /\ pressed \in (IF entry = "flask" THEN {FALSE} ELSE BOOLEAN)

\* every upload, a fixed well-behaved endpoint
InitImage ==
    /\ RequestShape
    /\ has_input = TRUE
    /\ upload \in Uploads
    /\ post_outcome = "ok"
    /\ body = ShortBody
    /\ body_end = "eof"
    /\ prior = << >>

\* a fixed upload, every behaviour of the endpoint
InitStream ==
    /\ entry \in {"flask", "ui"}
    /\ analysis_type = "General_Description"
    /\ pressed = (entry = "ui")
    /\ has_input = TRUE
    /\ upload = PlainUpload
    /\ post_outcome \in {"ok", "refused", "status"}
    /\ body \in (IF post_outcome = "ok" THEN Bodies ELSE {<< >>})
    /\ body_end \in (IF post_outcome = "ok" THEN {"eof", "abort"} ELSE {"eof"})
    /\ prior = << >>

\* the request lacks the file or the selector / no file is uploaded
InitMissing ==
    /\ RequestShape
    /\ has_input = FALSE
    /\ upload = PlainUpload
    /\ post_outcome = "ok"
    /\ body = ShortBody
    /\ body_end = "eof"
    /\ prior = << >>

\* a fixed upload and endpoint, every table left by earlier requests
InitHistory ==
    /\ entry \in {"flask", "ui"}
    /\ analysis_type = "General_Description"
    /\ pressed \in (IF entry = "flask" THEN {FALSE} ELSE BOOLEAN)
    /\ has_input = TRUE
    /\ upload = PlainUpload
    /\ post_outcome = "ok"
    /\ body = ShortBody
    /\ body_end = "eof"
    /\ prior \in PriorTables

Init == (InitImage \/ InitStream \/ InitMissing \/ InitHistory) /\ Fresh

(***************************************************************************)
(* Flask endpoint /analyze (src/app.py).                                   *)
(***************************************************************************)
Respond(code, msg) == [status |-> code, body |-> Error(msg)]

\* NamedTemporaryFile(delete=False): os.unlink is skipped when process_dicom
\* raises, so the file of a .dcm upload stays on disk
LeftOnRaise(u) == IF u.ext = "dcm" THEN 1 ELSE 0

\* an exception leaves the view function: Flask answers 500
Abort500(e) ==
    /\ exc' = e
    /\ http' = Respond(500, "Internal Server Error")
    /\ pc' = "done"

F_Params ==
    /\ entry = "flask" /\ pc = "start"
    /\ IF ~has_input
       THEN /\ http' = Respond(400, "Missing required parameters")
            /\ pc' = "done"
       ELSE /\ pc' = "decode"
            /\ http' = http
    /\ UNCHANGED << inputs, tmp_files, image_data, frame_idx, current_frame, img_base64, sent,
                    nread, pos, full_response, result, fault, shown, status,
                    history, db, exc >>

F_Decode ==
    /\ entry = "flask" /\ pc = "decode"
    /\ LET r == FlaskDecode(upload)
       IN  IF r.exc # "none"
           THEN /\ Abort500(r.exc)
                /\ image_data' = image_data
                /\ tmp_files' = tmp_files + LeftOnRaise(upload)
           ELSE /\ image_data' = r.val
                /\ pc' = "encode"
                /\ UNCHANGED << exc, http, tmp_files >>
    /\ UNCHANGED << inputs, frame_idx, current_frame, img_base64, sent, nread, pos,
                    full_response, result, fault, shown, status, history, db >>

F_Encode ==
    /\ entry = "flask" /\ pc = "encode"
    /\ LET r == Encode(image_data)
       IN  IF r.exc # "none"
           THEN /\ Abort500(r.exc)
                /\ UNCHANGED << current_frame, img_base64 >>
           ELSE /\ current_frame' = image_data
                /\ img_base64' = r.val
                /\ pc' = "validate"
                /\ UNCHANGED << exc, http >>
    /\ UNCHANGED << inputs, tmp_files, image_data, frame_idx, sent, nread, pos, full_response,
                    result, fault, shown, status, history, db >>

F_Validate ==
    /\ entry = "flask" /\ pc = "validate"
    /\ IF ~ValidType(analysis_type)
       THEN /\ http' = Respond(400, "Invalid analysis type")
            /\ pc' = "done"
       ELSE /\ pc' = "post"
            /\ http' = http
    /\ UNCHANGED << inputs, tmp_files, image_data, frame_idx, current_frame, img_base64, sent,
                    nread, pos, full_response, result, fault, shown, status,
                    history, db, exc >>

\* requests.post(api_url, json=payload, stream=True); response.raise_for_status()
F_Post ==
    /\ entry = "flask" /\ pc = "post"
    /\ sent' = Append(sent, Request(img_base64, analysis_type, TRUE))
    /\ LET e == PostFault(post_outcome)
       IN  IF e # "none"
           THEN /\ fault' = e
                /\ result' = Error(Handle(e))
                /\ pc' = "save"
                /\ full_response' = full_response
           ELSE /\ full_response' = << >>
                /\ pc' = "iter"
                /\ UNCHANGED << fault, result >>
    /\ UNCHANGED << inputs, tmp_files, image_data, frame_idx, current_frame, img_base64, nread,
                    pos, shown, status, history, db, http, exc >>

\* iter_lines reads the connection in blocks: the next line is taken from the
\* block in hand, or a new block is read, which holds one or more of the
\* lines not yet read
Pulled(n, p, len) == IF n > p THEN {n} ELSE (p + 1)..len

\* one turn of "for line in response.iter_lines()", up to the return
F_Iter ==
    /\ entry = "flask" /\ pc = "iter"
    /\ IF pos = Len(body)
       THEN LET r == EndOfStream(full_response, body_end)
            IN  /\ fault' = r.fault
                /\ result' = r.result
                /\ pc' = "save"
                /\ UNCHANGED << nread, pos, full_response >>
       ELSE LET line == body[pos + 1]
                e    == ParseLine(line)
                acc  == IF line.has_response
                        THEN AppendText(full_response, line.response)
                        ELSE full_response
            IN  /\ nread' \in Pulled(nread, pos, Len(body))
                /\ pos' = pos + 1
                /\ IF line.kind = "empty"
                   THEN UNCHANGED << full_response, fault, result, pc >>
                   ELSE IF e # "none"
                   THEN /\ fault' = e
                        /\ result' = Error(Handle(e))
                        /\ pc' = "save"
                        /\ full_response' = full_response
                   ELSE /\ full_response' = acc
                        /\ fault' = fault
                        /\ IF IsDone(line)
                           THEN /\ result' = Analysis(acc)
                                /\ pc' = "save"
                           ELSE UNCHANGED << result, pc >>
    /\ UNCHANGED << inputs, tmp_files, image_data, frame_idx, current_frame, img_base64, sent,
                    shown, status, history, db, http, exc >>

\* save_analysis_result(file.filename, analysis_type, result)
F_Save ==
    /\ entry = "flask" /\ pc = "save"
    /\ \E now \in ClockAfter(db) :
           db' = Append(db, Record(Len(db) + 1, upload, analysis_type, result, now))
    /\ pc' = "respond"
    /\ UNCHANGED << inputs, tmp_files, image_data, frame_idx, current_frame, img_base64, sent,
                    nread, pos, full_response, result, fault, shown, status,
                    history, http, exc >>

\* return jsonify(result)
F_Respond ==
    /\ entry = "flask" /\ pc = "respond"
    /\ http' = [status |-> 200, body |-> result]
    /\ pc' = "done"
    /\ UNCHANGED << inputs, tmp_files, image_data, frame_idx, current_frame, img_base64, sent,
                    nread, pos, full_response, result, fault, shown, status,
                    history, db, exc >>

(***************************************************************************)
(* Streamlit UI, main() (src/ollama_integration.py).                       *)
(***************************************************************************)
\* an exception leaves main(): the script run stops
Stop(e) ==
    /\ exc' = e
    /\ pc' = "done"

\* the body of the consumer loop: if chunk: full_response += chunk; markdown(full_response)
Consume(acc, chunk) == IF chunk # << >> THEN AppendText(acc, chunk) ELSE acc

\* SELECT * FROM analysis_history ORDER BY timestamp DESC LIMIT 5
\* the results the query may give: at most HistoryLimit rows, later seconds
\* first; the order of rows of the same second, and which of them the limit
\* keeps, is left to the database
LatestRows(rows) ==
    LET n == Len(rows)
        k == IF n <= HistoryLimit THEN n ELSE HistoryLimit
        Picks == { q \in [1..k -> 1..n] :
                     /\ \A i \in 1..k : \A j \in 1..k : (i # j) => (q[i] # q[j])
                     /\ \A i \in 1..k : \A j \in i..k :
                            rows[q[i]].timestamp >= rows[q[j]].timestamp
                     /\ \A m \in 1..n :
                            (\A i \in 1..k : q[i] # m) =>
                                \A i \in 1..k : rows[m].timestamp <= rows[q[i]].timestamp }
    IN  { [i \in 1..k |-> rows[q[i]]] : q \in Picks }

U_Upload ==
    /\ entry = "ui" /\ pc = "start"
    /\ pc' = IF has_input THEN "decode" ELSE "done"
    /\ UNCHANGED << inputs, tmp_files, image_data, frame_idx, current_frame, img_base64, sent,
                    nread, pos, full_response, result, fault, shown, status,
                    history, db, http, exc >>

U_Decode ==
    /\ entry = "ui" /\ pc = "decode"
    /\ LET r == UiDecode(upload)
       IN  IF r.exc # "none"
           THEN /\ Stop(r.exc)
                /\ image_data' = image_data
                /\ tmp_files' = tmp_files + LeftOnRaise(upload)
           ELSE /\ image_data' = r.val
                /\ pc' = "select"
                /\ UNCHANGED << exc, tmp_files >>
    /\ UNCHANGED << inputs, frame_idx, current_frame, img_base64, sent, nread, pos,
                    full_response, result, fault, shown, status, history, db, http >>

\* the slider and st.image; st.image may or may not reject a None image
U_Select ==
    /\ entry = "ui" /\ pc = "select"
    /\ IF image_data.kind = "list"
       THEN \E idx \in 0..(Len(image_data.frames) - 1) :
                LET r == SelectFrame(image_data, idx)
                IN  /\ frame_idx' = idx
                    /\ IF r.exc # "none"
                       THEN /\ Stop(r.exc)
                            /\ current_frame' = current_frame
                       ELSE /\ current_frame' = r.val
                            /\ pc' = "encode"
                            /\ exc' = exc
       ELSE /\ frame_idx' = frame_idx
            /\ \E rejected \in BOOLEAN :
                  IF rejected /\ image_data.kind = "None"
                  THEN /\ Stop("StreamlitAPIException")
                       /\ current_frame' = current_frame
                  ELSE /\ current_frame' = image_data
                       /\ pc' = "encode"
                       /\ exc' = exc
    /\ UNCHANGED << inputs, tmp_files, image_data, img_base64, sent, nread, pos, full_response,
                    result, fault, shown, status, history, db, http >>

U_Encode ==
    /\ entry = "ui" /\ pc = "encode"
    /\ LET r == Encode(current_frame)
       IN  IF r.exc # "none"
           THEN /\ Stop(r.exc)
                /\ img_base64' = img_base64
           ELSE /\ img_base64' = r.val
                /\ pc' = "button"
                /\ exc' = exc
    /\ UNCHANGED << inputs, tmp_files, image_data, frame_idx, current_frame, sent, nread, pos,
                    full_response, result, fault, shown, status, history, db, http >>

\* if st.button("Analyze Image")
U_Button ==
    /\ entry = "ui" /\ pc = "button"
    /\ pc' = IF pressed THEN "post" ELSE "history"
    /\ UNCHANGED << inputs, tmp_files, image_data, frame_idx, current_frame, img_base64, sent,
                    nread, pos, full_response, result, fault, shown, status,
                    history, db, http, exc >>

\* requests.post(api_url, json=payload) without stream=True reads the whole body;
\* a fault is yielded as one more chunk
U_Post ==
    /\ entry = "ui" /\ pc = "post"
    /\ sent' = Append(sent, Request(img_base64, analysis_type, FALSE))
    /\ nread' = IF post_outcome = "ok" THEN Len(body) ELSE nread
    /\ LET e == IF PostFault(post_outcome) # "none" THEN PostFault(post_outcome)
                ELSE IF body_end = "abort" THEN "ChunkedEncodingError"
                ELSE "none"
       IN  IF e # "none"
           THEN /\ fault' = e
                /\ full_response' = Consume(<< >>, <<Handle(e)>>)
                /\ shown' = full_response'
                /\ pc' = "complete"
           ELSE /\ full_response' = << >>
                /\ pc' = "iter"
                /\ UNCHANGED << fault, shown >>
    /\ UNCHANGED << inputs, tmp_files, image_data, frame_idx, current_frame, img_base64, pos,
                    result, status, history, db, http, exc >>

\* one turn of the generator's line loop together with the consumer's turn on
\* what it yields
U_Iter ==
    /\ entry = "ui" /\ pc = "iter"
    /\ IF pos = Len(body)
       THEN /\ pc' = "complete"
            /\ UNCHANGED << pos, full_response, fault, shown >>
       ELSE LET line == body[pos + 1]
                e    == ParseLine(line)
                acc  == IF line.has_response
                        THEN Consume(full_response, line.response)
                        ELSE full_response
            IN  /\ pos' = pos + 1
                /\ IF line.kind = "empty"
                   THEN UNCHANGED << full_response, fault, shown, pc >>
                   ELSE IF e # "none"
                   THEN /\ fault' = e
                        /\ full_response' = Consume(full_response, <<Handle(e)>>)
                        /\ shown' = full_response'
                        /\ pc' = "complete"
                   ELSE /\ full_response' = acc
                        /\ shown' = IF line.has_response /\ line.response # << >>
                                    THEN acc ELSE shown
                        /\ fault' = fault
                        /\ pc' = IF IsDone(line) THEN "complete" ELSE pc
    /\ UNCHANGED << inputs, tmp_files, image_data, frame_idx, current_frame, img_base64, sent,
                    nread, result, status, history, db, http, exc >>

\* st.success("Analysis Complete!")
U_Complete ==
    /\ entry = "ui" /\ pc = "complete"
    /\ status' = "Analysis Complete!"
    /\ pc' = "history"
    /\ UNCHANGED << inputs, tmp_files, image_data, frame_idx, current_frame, img_base64, sent,
                    nread, pos, full_response, result, fault, shown, history, db,
                    http, exc >>

\* the history table
U_History ==
    /\ entry = "ui" /\ pc = "history"
    /\ history' \in LatestRows(db)
    /\ pc' = "done"
    /\ UNCHANGED << inputs, tmp_files, image_data, frame_idx, current_frame, img_base64, sent,
                    nread, pos, full_response, result, fault, shown, status, db,
                    http, exc >>

Next ==
    \/ F_Params \/ F_Decode \/ F_Encode \/ F_Validate \/ F_Post \/ F_Iter
    \/ F_Save \/ F_Respond
    \/ U_Upload \/ U_Decode \/ U_Select \/ U_Encode \/ U_Button \/ U_Post
    \/ U_Iter \/ U_Complete \/ U_History

Spec == Init /\ [][Next]_vars

(***************************************************************************)
(* What the claims speak about.                                            *)
(***************************************************************************)
ClaimedCategories ==
    { "General_Description", "Anomaly_Detection", "Segmentation",
      "Condition_Identification" }

IsDoneLine(l) == l.kind = "obj" /\ l.done = "true"
IsFaultLine(l) == l.kind \in {"notjson", "badbytes", "nonobj"}
IsUnparseable(l) == l.kind \in {"notjson", "badbytes"}

\* index of the first line that ends the loop (a done marker or a line that
\* raises), 0 if there is none
StopIndex(b) ==
    LET S == { i \in 1..Len(b) : IsDoneLine(b[i]) \/ IsFaultLine(b[i]) }
    IN  IF S = {} THEN 0 ELSE CHOOSE i \in S : \A j \in S : i <= j

\* the lines the loop takes
Consumed(b) == IF StopIndex(b) = 0 THEN b ELSE SubSeq(b, 1, StopIndex(b))

EndsWithDone(b) == StopIndex(b) # 0 /\ IsDoneLine(b[StopIndex(b)])
EndsWithFault(b) == StopIndex(b) # 0 /\ IsFaultLine(b[StopIndex(b)])

\* concatenation of the response values of the lines of s, in order
RECURSIVE ConcatResponses(_)
ConcatResponses(s) ==
    IF s = << >> THEN << >>
    ELSE (IF Head(s).has_response THEN Head(s).response ELSE << >>)
         \o ConcatResponses(Tail(s))

\* the aggregator has been called and has finished
AnalyzeReturned ==
    /\ sent # << >>
    /\ IF entry = "flask" THEN pc \in {"save", "respond", "done"}
                          ELSE pc \in {"complete", "history", "done"}

\* the text the caller holds for the outcome
OutcomeText == IF entry = "flask" THEN result.text ELSE full_response
OutcomeIsSuccess ==
    IF entry = "flask" THEN result.tag = "analysis" ELSE fault = "none"

\* the endpoint answers, and no line taken by the loop raises; the connection
\* may break only where the client no longer reads
CleanRun ==
    /\ post_outcome = "ok"
    /\ ~EndsWithFault(body)
    /\ body_end = "abort" => (entry = "flask" /\ EndsWithDone(body))

(***************************************************************************)
(* C1: for every response stream that causes no transport or parse error,  *)
(* analyze returns Success whose text is exactly the concatenation, in     *)
(* arrival order and without separator, of the response values of the      *)
(* lines it consumed; lines without a response field add nothing and empty *)
(* lines are skipped.                                                      *)
(***************************************************************************)
C1_Concatenation ==
    (AnalyzeReturned /\ CleanRun) =>
        /\ OutcomeIsSuccess
        /\ OutcomeText = ConcatResponses(Consumed(body))
        /\ pos = Len(Consumed(body))

C1_Witness ==
    /\ entry = "flask" /\ pc = "done"
    /\ body = << Obj(<<"A">>, "absent"), Obj(<<"B">>, "absent"), ObjNoResp("true") >>
    /\ http = [status |-> 200, body |-> Analysis(<<"A", "B">>)]

(***************************************************************************)
(* C7: if the stream ends cleanly without any line carrying done=true,     *)
(* analyze still returns Success with exactly the text accumulated so far; *)
(* a stream with no response field at all gives Success with empty text.   *)
(***************************************************************************)
NoDoneCleanEnd ==
    /\ post_outcome = "ok"
    /\ body_end = "eof"
    /\ StopIndex(body) = 0

C7_ImplicitDone ==
    (AnalyzeReturned /\ NoDoneCleanEnd) =>
        /\ OutcomeIsSuccess
        /\ pos = Len(body)
        /\ OutcomeText = ConcatResponses(body)
        /\ (\A i \in 1..Len(body) : ~body[i].has_response) => OutcomeText = << >>

C7_Witness ==
    /\ entry = "flask" /\ pc = "done"
    /\ body = << ObjNoResp("false"), EmptyLine >>
    /\ body_end = "eof"
    /\ http = [status |-> 200, body |-> Analysis(<< >>)]
    /\ Len(db) = 1

(***************************************************************************)
(* C5: a request whose category is outside the fixed set fails validation  *)
(* before any network call: no HTTP request is ever sent to the inference  *)
(* endpoint for it, and the request is answered with an error result.      *)
(***************************************************************************)
C5_UnknownCategoryNoCall ==
    (analysis_type \notin ClaimedCategories) =>
        /\ sent = << >>
        /\ pc = "done" => (http.status \in {400, 500} /\ http.body.tag = "error")

C5_Witness ==
    /\ analysis_type \notin ClaimedCategories
    /\ pc = "done"
    /\ img_base64 # NoPayload
    /\ http = Respond(400, "Invalid analysis type")
    /\ sent = << >>

(***************************************************************************)
(* C2: once a line whose done field is true has been processed (its own    *)
(* response appended first), aggregation stops immediately: no later line  *)
(* of the body is read or parsed, and no later line or later event of the  *)
(* body can add text to the result or turn the result into a Failure.      *)
(***************************************************************************)
DoneReached == post_outcome = "ok" /\ EndsWithDone(body)

C2_DoneStops ==
    (AnalyzeReturned /\ DoneReached) =>
        /\ nread = StopIndex(body)
        /\ pos = StopIndex(body)
        /\ OutcomeIsSuccess
        /\ OutcomeText = ConcatResponses(Consumed(body))

\* what holds for the /analyze endpoint, which streams the body: the loop
\* takes no line after the done line and nothing after it changes the
\* result; lines that arrived in the same block as the done line have been
\* read from the connection
Flask_DoneStops ==
    (entry = "flask" /\ AnalyzeReturned /\ DoneReached) =>
        /\ pos = StopIndex(body)
        /\ nread \in StopIndex(body)..Len(body)
        /\ OutcomeIsSuccess
        /\ OutcomeText = ConcatResponses(Consumed(body))

Flask_DoneStops_Witness ==
    /\ entry = "flask" /\ pc = "done"
    /\ body = << Obj(<<"A">>, "true"), NotJson, Obj(<<"B">>, "absent") >>
    /\ body_end = "abort"
    /\ nread = 3 /\ pos = 1
    /\ http = [status |-> 200, body |-> Analysis(<<"A">>)]

(***************************************************************************)
(* C3: all-or-nothing per request: if a transport error or an unparseable  *)
(* line occurs after response deltas have been accumulated, none of the    *)
(* accumulated text reaches the caller; the caller receives a Failure      *)
(* only, never partial text followed by or mixed with an error message.    *)
(***************************************************************************)
FailedRun == AnalyzeReturned /\ fault # "none"

\* what the caller has been given so far
CallerText ==
    IF entry = "flask"
    THEN (IF http.status = 200 THEN http.body.text ELSE << >>)
    ELSE shown

C3_AllOrNothing ==
    /\ FailedRun => (CallerText = << >> \/ CallerText = << Handle(fault) >>)
    /\ (FailedRun /\ pc = "done") => CallerText = << Handle(fault) >>
    /\ (FailedRun /\ entry = "flask") => result = Error(Handle(fault))

\* the same statement for the /analyze endpoint alone
Flask_AllOrNothing == (entry = "flask") => C3_AllOrNothing

Flask_AllOrNothing_Witness ==
    /\ entry = "flask" /\ pc = "done"
    /\ body = << Obj(<<"A">>, "absent"), Obj(<<"B">>, "absent"), NotJson >>
    /\ http = [status |-> 200, body |-> Error("JSON Decode Error")]

(***************************************************************************)
(* C4: whether the analysis succeeded or failed, every request that        *)
(* reaches the aggregator ends with exactly one well-formed record         *)
(* {source filename, category, serialized result} in the log store, and no *)
(* outcome is returned or displayed to the caller before its record has    *)
(* been appended; for the /analyze endpoint and for the interactive UI.    *)
(***************************************************************************)
OutcomeGiven ==
    IF entry = "flask" THEN http.status = 200 ELSE (shown # << >> \/ status # "none")

StoredOutcome ==
    IF entry = "flask" THEN result
    ELSE IF fault = "none" THEN Analysis(full_response)
    ELSE Error(Handle(fault))

\* the table holds the earlier rows and one row for this request
OneRecordAdded(r) ==
    /\ Len(db) = Len(prior) + 1
    /\ SubSeq(db, 1, Len(prior)) = prior
    /\ db[Len(db)].filename = upload.name
    /\ db[Len(db)].analysis_type = analysis_type
    /\ db[Len(db)].results = JsonDumps(r)
    /\ db[Len(db)].id = Len(db)
    /\ db[Len(db)].timestamp \in Times

C4_Persisted ==
    /\ (sent # << >> /\ pc = "done") => OneRecordAdded(StoredOutcome)
    /\ OutcomeGiven => Len(db) = Len(prior) + 1
    /\ Len(db) <= Len(prior) + 1

\* the same statement for the /analyze endpoint alone
Flask_Persisted == (entry = "flask") => C4_Persisted

Flask_Persisted_Witness ==
    /\ entry = "flask" /\ pc = "done"
    /\ post_outcome = "refused"
    /\ OneRecordAdded(Error("API Request Error"))
    /\ http.status = 200

(***************************************************************************)
(* C6: analyze never lets a fault escape as an exception: every invocation *)
(* yields exactly one result; a connection-refused / timeout / non-2xx /   *)
(* other network fault gives TransportError, a non-empty line that is not  *)
(* parseable JSON gives ProtocolError, any other fault UnexpectedError.    *)
(***************************************************************************)
\* the category of the failure the caller is given, "none" for a success
OutcomeCategory ==
    LET msg == IF entry = "flask"
               THEN (IF result.tag = "error" THEN result.text[1] ELSE "none")
               ELSE (IF fault # "none" THEN full_response[Len(full_response)] ELSE "none")
    IN  IF msg = "API Request Error" THEN "TransportError"
        ELSE IF msg = "JSON Decode Error" THEN "ProtocolError"
        ELSE IF msg = "Unexpected Error" THEN "UnexpectedError"
        ELSE "none"

TransportFails ==
    \/ post_outcome # "ok"
    \/ body_end = "abort" /\ (entry = "ui" \/ StopIndex(body) = 0)

LineFails == post_outcome = "ok" /\ ~TransportFails /\ EndsWithFault(body)

C6_FaultCategories ==
    AnalyzeReturned =>
        /\ exc = "none"
        /\ entry = "flask" => result.tag \in {"analysis", "error"}
        /\ TransportFails => OutcomeCategory = "TransportError"
        /\ (LineFails /\ IsUnparseable(body[StopIndex(body)]))
               => OutcomeCategory = "ProtocolError"
        /\ (LineFails /\ ~IsUnparseable(body[StopIndex(body)]))
               => OutcomeCategory = "UnexpectedError"
        /\ (~TransportFails /\ ~LineFails) => OutcomeCategory = "none"

\* the same statement with a line of undecodable bytes counted among the
\* other faults
C6_DecodableLines ==
    AnalyzeReturned =>
        /\ exc = "none"
        /\ entry = "flask" => result.tag \in {"analysis", "error"}
        /\ TransportFails => OutcomeCategory = "TransportError"
        /\ (LineFails /\ body[StopIndex(body)].kind = "notjson")
               => OutcomeCategory = "ProtocolError"
        /\ (LineFails /\ body[StopIndex(body)].kind # "notjson")
               => OutcomeCategory = "UnexpectedError"
        /\ (~TransportFails /\ ~LineFails) => OutcomeCategory = "none"

(***************************************************************************)
(* C8: decode-time errors abort the pipeline before any network call:      *)
(* whenever decoding the upload fails (the container cannot be parsed, or  *)
(* a DICOM declares no pixel data, for which decode must fail with a       *)
(* DecodeError rather than return a value), no HTTP request is sent and no *)
(* payload derived from that upload is transmitted.                        *)
(***************************************************************************)
Undecodable == upload.parse \in {"bad", "nopixel"}
Decoded == has_input /\ pc \notin {"start", "decode"}

C8_DecodeErrorsAbort ==
    /\ Undecodable => (sent = << >> /\ img_base64 = NoPayload)
    /\ (Undecodable /\ Decoded) => (image_data = Unset /\ exc # "none")

\* a .dcm upload that the reader of the temporary file finds empty
Unflushed == upload.ext = "dcm" /\ upload.small

\* the part of the statement about the network alone, for every upload whose
\* decoding fails or returns no raster
NoCallForUndecodable ==
    (Undecodable \/ Unflushed) => (sent = << >> /\ img_base64 = NoPayload)

NoCallForUndecodable_Witness ==
    /\ upload.parse = "nopixel" /\ pc = "done" /\ exc = "AttributeError"
    /\ analysis_type \in ClaimedCategories

(***************************************************************************)
(* C9: for every valid single-frame input of either source kind (DICOM or  *)
(* standard raster) the raster that is encoded and sent has every sample   *)
(* in [0,255], and whenever the source frame is non-constant its minimum   *)
(* sample is 0 and its maximum sample is 255.                              *)
(***************************************************************************)
SingleFrame == upload.parse = "ok" /\ upload.ndim = 2
Encoded == img_base64.encoding = "base64"

Rescaled(src, out) ==
    /\ \A i \in DOMAIN out : out[i] >= 0 /\ out[i] <= 255
    /\ (MinOf(src) # MaxOf(src)) => (MinOf(out) = 0 /\ MaxOf(out) = 255)

C9_SentRasterRescaled ==
    (SingleFrame /\ Encoded) =>
        /\ Rescaled(upload.frames[1], img_base64.px)
        /\ \A k \in DOMAIN sent : sent[k].images = << img_base64 >>

\* the same statement for DICOM sources alone
Dicom_SentRasterRescaled == (upload.ext = "dcm") => C9_SentRasterRescaled

Dicom_SentRasterRescaled_Witness ==
    /\ upload.ext = "dcm" /\ SingleFrame /\ Len(sent) = 1
    /\ MinOf(upload.frames[1]) = 1 /\ MaxOf(upload.frames[1]) = 2
    /\ MinOf(sent[1].images[1].px) = 0 /\ MaxOf(sent[1].images[1].px) = 255

(***************************************************************************)
(* C10: for every multi-frame source (multi-frame DICOM or animated        *)
(* raster) decode returns a sequence whose length is the source's frame    *)
(* count, frames in source order; selectFrame at each valid index returns  *)
(* the corresponding frame; the pipeline encodes and forwards exactly one  *)
(* selected frame of that sequence to the aggregator; selectFrame with an  *)
(* index >= length fails with an IndexError and has no side effect.        *)
(***************************************************************************)
MultiFrame == upload.parse = "ok" /\ upload.ndim = 3 /\ Len(upload.frames) >= 2

\* the request asks for an analysis (valid selector, button pressed)
Asked == IF entry = "flask" THEN analysis_type \in ClaimedCategories ELSE pressed

FrameOf(u, i) == IF u.ext = "dcm" THEN Normalize(u.frames[i]) ELSE u.frames[i]

C10_MultiFrame ==
    (MultiFrame /\ Decoded) =>
        /\ image_data.kind = "list"
        /\ Len(image_data.frames) = Len(upload.frames)
        /\ \A i \in 1..Len(upload.frames) :
               /\ image_data.frames[i] = FrameOf(upload, i)
               /\ SelectFrame(image_data, i - 1) = Returned(Array(FrameOf(upload, i)))
        /\ SelectFrame(image_data, Len(upload.frames)).exc = "IndexError"
        /\ Encoded => img_base64 = PngBase64(FrameOf(upload, frame_idx + 1))
        /\ (pc = "done" /\ Asked) =>
               /\ Len(sent) = 1
               /\ sent[1].images = << PngBase64(FrameOf(upload, frame_idx + 1)) >>

\* the same statement for the interactive UI alone, for uploads that reach
\* the reader of the temporary file
Ui_MultiFrame == (entry = "ui" /\ ~Unflushed) => C10_MultiFrame

Ui_MultiFrame_Witness ==
    /\ entry = "ui" /\ pc = "done" /\ pressed
    /\ upload.ext = "dcm" /\ Len(upload.frames) = 2
    /\ upload.frames[1] # upload.frames[2]
    /\ frame_idx = 1
    /\ sent[1].images = << PngBase64(Normalize(upload.frames[2])) >>

====
